---- MODULE Spec2Model ----
(***************************************************************************)
(* Resilience core of melodai-service (error-handler module):             *)
(* RetryHandler, CircuitBreaker, ErrorLogger and the ErrorHandler facade.  *)
(*                                                                         *)
(* Spec          the circuit breaker: calls arrive, run concurrently       *)
(*               (every await is a suspension point), complete, time       *)
(*               advances.                                                 *)
(* SpecLive      Spec with calls that keep arriving, operations that       *)
(*               settle and a clock that keeps advancing.                  *)
(* SpecRetry     one RetryHandler.retry call after another, each with its  *)
(*               own options and an operation whose outcomes are arbitrary.*)
(* SpecRetryLive SpecRetry with operations that settle and timers that     *)
(*               fire.                                                     *)
(* SpecLog       the ErrorLogger: log, subscribe, getNotifications, clear. *)
(* SpecFacade    one facade call after another, followed through its       *)
(*               awaits, with registrations, queries, resets and time in   *)
(*               between; no listener is subscribed.                       *)
(* SpecNotify    withErrorHandling calls with the logger they write to and *)
(*               listeners that may throw.                                 *)
(***************************************************************************)
EXTENDS Integers, Sequences, FiniteSets, TLC

VARIABLES
    \* ---- CircuitBreaker (class fields) ----
    breaker,      \* [state, failures, lastFailureTime, successCount]
    options,      \* [failureThreshold, resetTimeout, monitoringPeriod]
    now,          \* Date.now()
    pending,      \* calls of execute suspended in `await fn()`, by the phase that admitted them
    trace,        \* what the last step did, in order: hooks fired, operation invoked, rejection
    sinceReset,   \* failed calls completed since the last reset(), saturating at failureThreshold (-1: never reset)
    run,          \* failed calls completed since the breaker was last Closed with a zero failure counter, no success in between (-1: none such)
    \* ---- RetryHandler.retry (locals of one call) ----
    rpc,          \* position of the retry call: idle, running (await fn()), sleeping (await setTimeout), returned, thrown
    opts,         \* { ...defaultOptions, ...options }
    attempt,      \* loop variable
    delay,        \* let delay
    lastError,    \* let lastError
    outcome,      \* what the retry call returned or threw
    calls,        \* how many times fn was invoked by this retry call
    inflight,     \* invocations of fn not yet settled
    firstOk,      \* number of the first invocation of fn that resolved in this retry call (0: none yet)
    slept,        \* delay of the last setTimeout of this retry call (-1: none yet)
    sleeps,       \* number of setTimeout sleeps of this retry call so far
    rtrace,       \* what the last step of the retry call did, in order
    \* ---- ErrorLogger (class fields) ----
    notifications, \* the buffer of ErrorNotification
    listeners,    \* the subscribed listeners, in subscription order
    emitted,      \* number of log calls since the buffer was last empty by construction or clear()
    snapshot,     \* what the last getNotifications call returned
    ltrace,       \* what the last step of the logger did, in order
    \* ---- ErrorHandler (class fields, and one facade call followed through its awaits) ----
    circuitBreakers, \* Map name -> CircuitBreaker: <<>> when the name has no entry, <<[b, o]>> otherwise
    fallbacks,    \* Map name -> fallback producer: 0 when the name has no entry
    call,         \* the facade call in progress: its arguments, where it is suspended, its outcome
    ftrace        \* what the last step of the facade did, in order

bvars == <<breaker, options, now, pending, trace, run, sinceReset>>
rvars == <<rpc, opts, attempt, delay, lastError, outcome, calls, inflight, firstOk, slept, sleeps, rtrace>>
lvars == <<notifications, listeners, emitted, snapshot, ltrace>>
fvars == <<circuitBreakers, fallbacks, call, ftrace>>
vars == <<breaker, options, now, pending, trace, run, sinceReset,
          rpc, opts, attempt, delay, lastError, outcome, calls, inflight, firstOk, slept, sleeps, rtrace,
          notifications, listeners, emitted, snapshot, ltrace,
          circuitBreakers, fallbacks, call, ftrace>>

\* ------------------------------------------------------------------------
\* Bounds of the model
\* ------------------------------------------------------------------------
MaxThreshold == 5      \* failureThreshold ranges over 1..MaxThreshold
MaxFailures == 7       \* failures are not driven above this
MaxInflight == 2       \* calls of execute suspended at the same time
StartTime == 4         \* Date.now() at construction (epoch time: far beyond every timeout)
MaxTicks == 4          \* how far time advances
MaxAttempts == 6       \* maxAttempts ranges over 0..MaxAttempts
MaxLogged == 1002      \* log calls between two clear() calls
MaxListeners == 1      \* listeners subscribed at the same time
MaxFacadeTicks == 1    \* how far time advances while the facade is followed
MaxNotified == 4       \* events logged while the facade is followed together with its logger

\* ------------------------------------------------------------------------
\* CircuitBreaker
\* ------------------------------------------------------------------------
CLOSED == "CLOSED"
OPEN == "OPEN"
HALF_OPEN == "HALF_OPEN"
CircuitState == {CLOSED, OPEN, HALF_OPEN}

Ev(name, arg) == [name |-> name, arg |-> arg]

\* constructor: the defaults overridden by the caller's options
CircuitBreakerOptions ==
    [failureThreshold : 1..MaxThreshold, resetTimeout : {2}, monitoringPeriod : {1}]

NewBreaker == [state |-> CLOSED, failures |-> 0, lastFailureTime |-> 0, successCount |-> 0]

\* variant: the probe is admitted one tick before resetTimeout has elapsed
executeEntry_EarlyProbe(b, o, t) ==
    IF b.state = OPEN
    THEN IF t - b.lastFailureTime + 1 >= o.resetTimeout
         THEN [b |-> [b EXCEPT !.state = HALF_OPEN], admitted |-> TRUE,
               ev |-> <<Ev("onHalfOpen", 0), Ev("fn", 0)>>]
         ELSE [b |-> b, admitted |-> FALSE, ev |-> <<Ev("throw CircuitOpen", 0)>>]
    ELSE [b |-> b, admitted |-> TRUE, ev |-> <<Ev("fn", 0)>>]

\* variant: the operation is invoked before the breaker moves to HALF_OPEN
executeEntry_ProbeBeforeTransition(b, o, t) ==
    IF b.state = OPEN
    THEN IF t - b.lastFailureTime >= o.resetTimeout
         THEN [b |-> [b EXCEPT !.state = HALF_OPEN], admitted |-> TRUE,
               ev |-> <<Ev("fn", 0), Ev("onHalfOpen", 0)>>]
         ELSE [b |-> b, admitted |-> FALSE, ev |-> <<Ev("throw CircuitOpen", 0)>>]
    ELSE [b |-> b, admitted |-> TRUE, ev |-> <<Ev("fn", 0)>>]

\* variant: a rejected call is recorded as a failure of the dependency
executeEntry_RejectionRefreshes(b, o, t) ==
    IF b.state = OPEN
    THEN IF t - b.lastFailureTime >= o.resetTimeout
         THEN [b |-> [b EXCEPT !.state = HALF_OPEN], admitted |-> TRUE,
               ev |-> <<Ev("onHalfOpen", 0), Ev("fn", 0)>>]
         ELSE [b |-> [b EXCEPT !.lastFailureTime = t], admitted |-> FALSE,
               ev |-> <<Ev("throw CircuitOpen", 0)>>]
    ELSE [b |-> b, admitted |-> TRUE, ev |-> <<Ev("fn", 0)>>]

\* execute, up to `await fn()`: admit the call (possibly moving to HALF_OPEN) or reject it
executeEntry(b, o, t) ==
    IF b.state = OPEN
    THEN IF t - b.lastFailureTime >= o.resetTimeout
         THEN [b |-> [b EXCEPT !.state = HALF_OPEN], admitted |-> TRUE,
               ev |-> <<Ev("onHalfOpen", 0), Ev("fn", 0)>>]
         ELSE [b |-> b, admitted |-> FALSE, ev |-> <<Ev("throw CircuitOpen", 0)>>]
    ELSE [b |-> b, admitted |-> TRUE, ev |-> <<Ev("fn", 0)>>]

\* variant: closing does not zero the failure counter
onSuccess_KeepsFailures(b, o, t) ==
    IF b.state = HALF_OPEN
    THEN IF b.successCount + 1 >= 3
         THEN [b |-> [b EXCEPT !.state = CLOSED, !.successCount = 0],
               ev |-> <<Ev("onClose", 0)>>]
         ELSE [b |-> [b EXCEPT !.successCount = b.successCount + 1], ev |-> <<>>]
    ELSE IF b.state = CLOSED
    THEN IF t - b.lastFailureTime > o.monitoringPeriod
         THEN [b |-> [b EXCEPT !.failures = 0], ev |-> <<>>]
         ELSE [b |-> b, ev |-> <<>>]
    ELSE [b |-> b, ev |-> <<>>]

\* variant: every success while Closed zeroes the failure counter
onSuccess_AlwaysResets(b, o, t) ==
    IF b.state = HALF_OPEN
    THEN IF b.successCount + 1 >= 3
         THEN [b |-> [b EXCEPT !.state = CLOSED, !.failures = 0, !.successCount = 0],
               ev |-> <<Ev("onClose", 0)>>]
         ELSE [b |-> [b EXCEPT !.successCount = b.successCount + 1], ev |-> <<>>]
    ELSE IF b.state = CLOSED
    THEN [b |-> [b EXCEPT !.failures = 0], ev |-> <<>>]
    ELSE [b |-> b, ev |-> <<>>]

onSuccess(b, o, t) ==
    IF b.state = HALF_OPEN
    THEN IF b.successCount + 1 >= 3
         THEN [b |-> [b EXCEPT !.state = CLOSED, !.failures = 0, !.successCount = 0],
               ev |-> <<Ev("onClose", 0)>>]
         ELSE [b |-> [b EXCEPT !.successCount = b.successCount + 1], ev |-> <<>>]
    ELSE IF b.state = CLOSED
    THEN IF t - b.lastFailureTime > o.monitoringPeriod
         THEN [b |-> [b EXCEPT !.failures = 0], ev |-> <<>>]
         ELSE [b |-> b, ev |-> <<>>]
    ELSE [b |-> b, ev |-> <<>>]

\* variant: the breaker opens only once the counter exceeds the threshold
onFailure_StrictThreshold(b, o, t) ==
    LET b1 == [b EXCEPT !.failures = b.failures + 1, !.lastFailureTime = t, !.successCount = 0]
    IN  IF b1.failures > o.failureThreshold /\ b1.state # OPEN
        THEN [b |-> [b1 EXCEPT !.state = OPEN], ev |-> <<Ev("onOpen", b1.failures)>>]
        ELSE [b |-> b1, ev |-> <<>>]

\* variant: only a Closed breaker opens, a HalfOpen failure leaves the phase alone
onFailure_OnlyFromClosed(b, o, t) ==
    LET b1 == [b EXCEPT !.failures = b.failures + 1, !.lastFailureTime = t, !.successCount = 0]
    IN  IF b1.failures >= o.failureThreshold /\ b1.state = CLOSED
        THEN [b |-> [b1 EXCEPT !.state = OPEN], ev |-> <<Ev("onOpen", b1.failures)>>]
        ELSE [b |-> b1, ev |-> <<>>]

\* variant: every failure at or above the threshold fires onOpen, also when already Open
onFailure_ReopensWhenOpen(b, o, t) ==
    LET b1 == [b EXCEPT !.failures = b.failures + 1, !.lastFailureTime = t, !.successCount = 0]
    IN  IF b1.failures >= o.failureThreshold
        THEN [b |-> [b1 EXCEPT !.state = OPEN], ev |-> <<Ev("onOpen", b1.failures)>>]
        ELSE [b |-> b1, ev |-> <<>>]

\* variant: a failure that arrives while the breaker is Open is not recorded
onFailure_IgnoredWhenOpen(b, o, t) ==
    LET b1 == [b EXCEPT !.failures = b.failures + 1, !.lastFailureTime = t, !.successCount = 0]
    IN  IF b.state = OPEN THEN [b |-> b, ev |-> <<>>]
        ELSE IF b1.failures >= o.failureThreshold
        THEN [b |-> [b1 EXCEPT !.state = OPEN], ev |-> <<Ev("onOpen", b1.failures)>>]
        ELSE [b |-> b1, ev |-> <<>>]

onFailure(b, o, t) ==
    LET b1 == [b EXCEPT !.failures = b.failures + 1, !.lastFailureTime = t, !.successCount = 0]
    IN  IF b1.failures >= o.failureThreshold /\ b1.state # OPEN
        THEN [b |-> [b1 EXCEPT !.state = OPEN], ev |-> <<Ev("onOpen", b1.failures)>>]
        ELSE [b |-> b1, ev |-> <<>>]

\* variant: the failure counter survives reset()
reset_KeepsFailures(b) == [b EXCEPT !.state = CLOSED, !.successCount = 0, !.lastFailureTime = 0]

reset(b) == [b EXCEPT !.state = CLOSED, !.failures = 0, !.successCount = 0, !.lastFailureTime = 0]

Pending == pending[CLOSED] + pending[HALF_OPEN]

\* a caller invokes execute(fn)
Execute ==
    LET r == executeEntry(breaker, options, now)
    IN  /\ r.admitted => Pending < MaxInflight
        /\ breaker' = r.b
        /\ pending' = IF r.admitted
                      THEN [pending EXCEPT ![r.b.state] = pending[r.b.state] + 1]
                      ELSE pending
        /\ trace' = <<Ev("execute", 0)>> \o r.ev
        /\ UNCHANGED <<options, now, run, sinceReset>>
        /\ UNCHANGED <<rvars, lvars, fvars>>

\* variant: a success counts for the breaker only in the phase that admitted the call
FnResolved_OnlyProbesCount(ph) ==
    LET r == IF breaker.state = ph THEN onSuccess(breaker, options, now)
             ELSE [b |-> breaker, ev |-> <<>>]
    IN  /\ pending[ph] > 0
        /\ pending' = [pending EXCEPT ![ph] = pending[ph] - 1]
        /\ breaker' = r.b
        /\ trace' = <<Ev("resolved", ph)>> \o r.ev
        /\ run' = IF r.b.state = CLOSED /\ r.b.failures = 0 THEN 0 ELSE -1
        /\ UNCHANGED <<options, now, sinceReset>>
        /\ UNCHANGED <<rvars, lvars, fvars>>

\* the awaited fn() of a suspended call resolves: onSuccess(), return result
FnResolved(ph) ==
    LET r == onSuccess(breaker, options, now)
    IN  /\ pending[ph] > 0
        /\ pending' = [pending EXCEPT ![ph] = pending[ph] - 1]
        /\ breaker' = r.b
        /\ trace' = <<Ev("resolved", ph)>> \o r.ev
        /\ run' = IF r.b.state = CLOSED /\ r.b.failures = 0 THEN 0 ELSE -1
        /\ UNCHANGED <<options, now, sinceReset>>
        /\ UNCHANGED <<rvars, lvars, fvars>>

\* the awaited fn() of a suspended call rejects: onFailure(), rethrow
FnRejected(ph) ==
    LET r == onFailure(breaker, options, now)
    IN  /\ pending[ph] > 0
        /\ breaker.failures < MaxFailures
        /\ pending' = [pending EXCEPT ![ph] = pending[ph] - 1]
        /\ breaker' = r.b
        /\ trace' = <<Ev("rejected", ph)>> \o r.ev
        /\ run' = IF run >= 0 THEN run + 1 ELSE -1
        /\ sinceReset' = IF sinceReset >= 0 /\ sinceReset < options.failureThreshold
                         THEN sinceReset + 1 ELSE sinceReset
        /\ UNCHANGED <<options, now>>
        /\ UNCHANGED <<rvars, lvars, fvars>>

Reset ==
    /\ breaker' = reset(breaker)
    /\ trace' = <<Ev("reset", 0)>>
    /\ run' = 0
    /\ sinceReset' = 0
    /\ UNCHANGED <<options, now, pending>>
    /\ UNCHANGED <<rvars, lvars, fvars>>

Tick ==
    /\ now < StartTime + MaxTicks
    /\ now' = now + 1
    /\ trace' = <<Ev("tick", 0)>>
    /\ UNCHANGED <<breaker, options, pending, run, sinceReset>>
    /\ UNCHANGED <<rvars, lvars, fvars>>

\* time passing beyond the horizon of the model: the clock is rebased, every
\* recorded instant moves one tick into the past (0 stands for the epoch)
TickLate ==
    /\ now = StartTime + MaxTicks
    /\ breaker' = [breaker EXCEPT !.lastFailureTime =
                        IF breaker.lastFailureTime > 0 THEN breaker.lastFailureTime - 1 ELSE 0]
    /\ trace' = <<Ev("tick", 0)>>
    /\ UNCHANGED <<options, now, pending, run, sinceReset>>
    /\ UNCHANGED <<rvars, lvars, fvars>>

\* ------------------------------------------------------------------------
\* RetryHandler
\* ------------------------------------------------------------------------
\* an optional field of RetryOptions: <<>> when the caller left it out, <<v>> otherwise
Given(S) == {<<>>} \cup {<<v>> : v \in S}

\* retryCondition is named: "default" is defaultOptions.retryCondition, the
\* others are caller-supplied predicates
RetryOptions ==
    [maxAttempts : Given(0..MaxAttempts),
     initialDelay : Given({3, 100}),
     maxDelay : Given({2, 1000}),
     backoffMultiplier : Given({1, 3}),
     retryCondition : Given({"always", "never"})]

defaultOptions ==
    [maxAttempts |-> 3, initialDelay |-> 1000, maxDelay |-> 10000, backoffMultiplier |-> 2,
     retryCondition |-> "default"]

\* { ...this.defaultOptions, ...options }
mergeOptions(d, o) ==
    [maxAttempts |-> IF o.maxAttempts = <<>> THEN d.maxAttempts ELSE o.maxAttempts[1],
     initialDelay |-> IF o.initialDelay = <<>> THEN d.initialDelay ELSE o.initialDelay[1],
     maxDelay |-> IF o.maxDelay = <<>> THEN d.maxDelay ELSE o.maxDelay[1],
     backoffMultiplier |-> IF o.backoffMultiplier = <<>> THEN d.backoffMultiplier
                           ELSE o.backoffMultiplier[1],
     retryCondition |-> IF o.retryCondition = <<>> THEN d.retryCondition
                        ELSE o.retryCondition[1]]

\* what fn can throw: a non-object (null, a string), an object without a
\* status property, an object with one; id tells one thrown value from another
Statuses == {400, 429, 499, 500}
ErrorKinds ==
    {[isObject |-> FALSE, hasStatus |-> FALSE, status |-> 0],
     [isObject |-> TRUE, hasStatus |-> FALSE, status |-> 0]}
    \cup {[isObject |-> TRUE, hasStatus |-> TRUE, status |-> st] : st \in Statuses}
Error(k, i) == [isObject |-> k.isObject, hasStatus |-> k.hasStatus, status |-> k.status, id |-> i]
NoError == [isObject |-> FALSE, hasStatus |-> FALSE, status |-> 0, id |-> 0]   \* undefined
NoOpts == [maxAttempts |-> 0, initialDelay |-> 0, maxDelay |-> 0, backoffMultiplier |-> 0,
           retryCondition |-> "default"]

\* variant: an error without a status is not retried
defaultRetryCondition_StatusOnly(e) ==
    IF e.isObject /\ e.hasStatus
    THEN e.status >= 500 \/ e.status = 429
    ELSE FALSE

defaultRetryCondition(e) ==
    IF e.isObject /\ e.hasStatus
    THEN e.status >= 500 \/ e.status = 429
    ELSE TRUE

retryCondition(o, e) ==
    CASE o.retryCondition = "default" -> defaultRetryCondition(e)
      [] o.retryCondition = "always" -> TRUE
      [] o.retryCondition = "never" -> FALSE

\* for (...; attempt <= opts.maxAttempts; ...)
loopContinues(a, o) == a <= o.maxAttempts

\* variant: gives up one attempt early
shouldThrow_OneEarly(a, o, e) == a + 1 = o.maxAttempts \/ ~retryCondition(o, e)

\* variant: the retry predicate is not consulted
shouldThrow_IgnoresCondition(a, o, e) == a = o.maxAttempts

\* variant: the cap on attempts is not consulted in the catch block
shouldThrow_NoCap(a, o, e) == ~retryCondition(o, e)

\* if (attempt === opts.maxAttempts || !opts.retryCondition(error)) throw error
shouldThrow(a, o, e) == a = o.maxAttempts \/ ~retryCondition(o, e)

Min(a, b) == IF a <= b THEN a ELSE b

\* variant: reaching the cap starts over from initialDelay
nextDelay_ResetOnCap(d, o) ==
    IF d * o.backoffMultiplier > o.maxDelay THEN o.initialDelay ELSE d * o.backoffMultiplier

\* delay = Math.min(delay * opts.backoffMultiplier, opts.maxDelay)
nextDelay(d, o) == Min(d * o.backoffMultiplier, o.maxDelay)

Thrown(e) == [kind |-> "thrown", error |-> e, call |-> 0]
Returned(c) == [kind |-> "returned", error |-> NoError, call |-> c]

\* a caller invokes retry(fn, options)
RetryCall(o) ==
    LET merged == mergeOptions(defaultOptions, o)
    IN  /\ rpc = "idle"
        /\ opts' = merged
        /\ delay' = merged.initialDelay
        /\ lastError' = NoError
        /\ firstOk' = 0
        /\ slept' = -1
        /\ sleeps' = 0
        /\ attempt' = 1
        /\ IF loopContinues(1, merged)
           THEN /\ calls' = 1
                /\ inflight' = 1
                /\ rpc' = "running"
                /\ outcome' = [kind |-> "none", error |-> NoError, call |-> 0]
                /\ rtrace' = <<Ev("retry", 0), Ev("fn", 1)>>
           ELSE /\ calls' = 0
                /\ inflight' = 0
                /\ rpc' = "thrown"
                /\ outcome' = Thrown(NoError)
                /\ rtrace' = <<Ev("retry", 0), Ev("throw", NoError)>>
        /\ UNCHANGED <<bvars, lvars, fvars>>

\* variant: the result is not returned, the loop goes on to the next attempt
FnResolves_NoReturn ==
    /\ rpc = "running"
    /\ firstOk' = IF firstOk = 0 THEN calls ELSE firstOk
    /\ attempt' = attempt + 1
    /\ IF loopContinues(attempt + 1, opts)
       THEN /\ calls' = calls + 1
            /\ inflight' = inflight
            /\ rpc' = "running"
            /\ outcome' = outcome
            /\ rtrace' = <<Ev("resolved", calls), Ev("fn", calls + 1)>>
       ELSE /\ rpc' = "thrown"
            /\ inflight' = inflight - 1
            /\ outcome' = Thrown(lastError)
            /\ rtrace' = <<Ev("resolved", calls), Ev("throw", lastError)>>
            /\ calls' = calls
    /\ UNCHANGED <<opts, delay, lastError, slept, sleeps>>
    /\ UNCHANGED <<bvars, lvars, fvars>>

\* the awaited fn() resolves: return its result
FnResolves ==
    /\ rpc = "running"
    /\ inflight' = inflight - 1
    /\ firstOk' = IF firstOk = 0 THEN calls ELSE firstOk
    /\ rpc' = "returned"
    /\ outcome' = Returned(calls)
    /\ rtrace' = <<Ev("resolved", calls), Ev("return", calls)>>
    /\ UNCHANGED <<opts, attempt, delay, lastError, calls, slept, sleeps>>
    /\ UNCHANGED <<bvars, lvars, fvars>>

\* the awaited fn() rejects with error e: the catch block
FnRejects(k) ==
    LET e == Error(k, calls)
    IN  /\ rpc = "running"
        /\ inflight' = inflight - 1
        /\ lastError' = e
        /\ IF shouldThrow(attempt, opts, e)
           THEN /\ rpc' = "thrown"
                /\ outcome' = Thrown(e)
                /\ rtrace' = <<Ev("rejected", e), Ev("throw", e)>>
                /\ slept' = slept
                /\ sleeps' = sleeps
           ELSE /\ rpc' = "sleeping"
                /\ outcome' = outcome
                /\ rtrace' = <<Ev("rejected", e), Ev("onRetry", attempt), Ev("setTimeout", delay)>>
                /\ slept' = delay
                /\ sleeps' = sleeps + 1
        /\ UNCHANGED <<opts, attempt, delay, calls, firstOk>>
        /\ UNCHANGED <<bvars, lvars, fvars>>

\* the timer of the backoff sleep fires: update delay, next iteration
TimerFires ==
    /\ rpc = "sleeping"
    /\ delay' = nextDelay(delay, opts)
    /\ attempt' = attempt + 1
    /\ IF loopContinues(attempt + 1, opts)
       THEN /\ calls' = calls + 1
            /\ inflight' = inflight + 1
            /\ rpc' = "running"
            /\ outcome' = outcome
            /\ rtrace' = <<Ev("timer", 0), Ev("fn", calls + 1)>>
       ELSE /\ rpc' = "thrown"
            /\ outcome' = Thrown(lastError)
            /\ rtrace' = <<Ev("timer", 0), Ev("throw", lastError)>>
            /\ UNCHANGED <<calls, inflight>>
    /\ UNCHANGED <<opts, lastError, firstOk, slept, sleeps>>
    /\ UNCHANGED <<bvars, lvars, fvars>>

RetryIdle ==
    /\ rpc = "idle"
    /\ opts = NoOpts
    /\ attempt = 0
    /\ delay = 0
    /\ lastError = NoError
    /\ outcome = [kind |-> "none", error |-> NoError, call |-> 0]
    /\ calls = 0
    /\ inflight = 0
    /\ firstOk = 0
    /\ slept = -1
    /\ sleeps = 0
    /\ rtrace = <<>>

\* the promise of the retry call has settled and its caller has consumed it
RetryDone ==
    /\ rpc \in {"returned", "thrown"}
    /\ rpc' = "idle"
    /\ opts' = NoOpts
    /\ attempt' = 0
    /\ delay' = 0
    /\ lastError' = NoError
    /\ outcome' = [kind |-> "none", error |-> NoError, call |-> 0]
    /\ calls' = 0
    /\ inflight' = 0
    /\ firstOk' = 0
    /\ slept' = -1
    /\ sleeps' = 0
    /\ rtrace' = <<>>
    /\ UNCHANGED <<bvars, lvars, fvars>>

\* ------------------------------------------------------------------------
\* ErrorLogger
\* ------------------------------------------------------------------------
MaxNotifications == 1000

Levels == <<"info", "warning", "error", "critical">>
\* the level of the k-th event logged: the four levels in rotation
LevelOf(k) == Levels[(k % 4) + 1]

ListenerIds == {1}
\* the level filters getNotifications is called with ("" for none)
LevelFilters == {"", "error"}

\* variant: the buffer is trimmed as soon as it is full
store_TrimsWhenFull(buf, n) ==
    LET pushed == Append(buf, n)
    IN  IF Len(pushed) >= MaxNotifications THEN Tail(pushed) ELSE pushed

\* this.notifications.push(fullNotification); if (length > 1000) shift()
store(buf, n) ==
    LET pushed == Append(buf, n)
    IN  IF Len(pushed) > MaxNotifications THEN Tail(pushed) ELSE pushed

\* the console method log() prints with
consoleMethod(level) ==
    IF level = "error" \/ level = "critical" THEN "error"
    ELSE IF level = "warning" THEN "warn"
    ELSE "log"

\* getNotifications(level?): "" stands for no filter
getNotifications(buf, level) ==
    IF level # ""
    THEN SelectSeq(buf, LAMBDA n : n.level = level)
    ELSE buf

\* what a listener throws
ListenerError(l) ==
    [isObject |-> TRUE, hasStatus |-> FALSE, status |-> 0, message |-> "listener failed",
     origin |-> "listener", id |-> l]

\* variant: the event is stored after the listeners have run
logCall_StoresLast(buf, ls, n, th) ==
    [buf |-> IF th = 0 THEN store(buf, n) ELSE buf,
     ev |-> [i \in 1..(IF th = 0 THEN Len(ls) ELSE th) |-> Ev("listener", ls[i])]
            \o (IF th = 0 THEN <<Ev("console", consoleMethod(n.level))>>
                ELSE <<Ev("throw", ListenerError(ls[th]))>>),
     threw |-> IF th = 0 THEN 0 ELSE ls[th]]

\* the body of log(notification) on buffer buf with listeners ls: push and
\* trim, then listeners.forEach, then the console; the th-th listener throws
\* (0: none does), which ends the forEach and the call
logCall(buf, ls, n, th) ==
    [buf |-> store(buf, n),
     ev |-> [i \in 1..(IF th = 0 THEN Len(ls) ELSE th) |-> Ev("listener", ls[i])]
            \o (IF th = 0 THEN <<Ev("console", consoleMethod(n.level))>>
                ELSE <<Ev("throw", ListenerError(ls[th]))>>),
     threw |-> IF th = 0 THEN 0 ELSE ls[th]]

\* log(notification)
Log(th) ==
    LET n == [level |-> LevelOf(emitted + 1), seq |-> emitted + 1, timestamp |-> now]
        r == logCall(notifications, listeners, n, th)
    IN  /\ emitted < MaxLogged
        /\ th <= Len(listeners)
        /\ notifications' = r.buf
        /\ emitted' = emitted + 1
        /\ ltrace' = <<Ev("log", n.seq)>> \o r.ev
        /\ snapshot' = <<>>
        /\ UNCHANGED listeners
        /\ UNCHANGED <<bvars, rvars, fvars>>

\* subscribe(listener)
Subscribe(l) ==
    /\ Len(listeners) < MaxListeners
    /\ listeners' = Append(listeners, l)
    /\ ltrace' = <<Ev("subscribe", l)>>
    /\ snapshot' = <<>>
    /\ UNCHANGED <<notifications, emitted>>
    /\ UNCHANGED <<bvars, rvars, fvars>>

\* the function subscribe(listener) returned is called
Unsubscribe(l) ==
    /\ \E i \in 1..Len(listeners) : listeners[i] = l
    /\ listeners' = SelectSeq(listeners, LAMBDA x : x # l)
    /\ ltrace' = <<Ev("unsubscribe", l)>>
    /\ snapshot' = <<>>
    /\ UNCHANGED <<notifications, emitted>>
    /\ UNCHANGED <<bvars, rvars, fvars>>

GetNotifications(level) ==
    /\ snapshot' = getNotifications(notifications, level)
    /\ ltrace' = <<Ev("getNotifications", level)>>
    /\ UNCHANGED <<notifications, listeners, emitted>>
    /\ UNCHANGED <<bvars, rvars, fvars>>

Clear ==
    /\ notifications' = <<>>
    /\ emitted' = 0
    /\ ltrace' = <<Ev("clear", 0)>>
    /\ snapshot' = <<>>
    /\ UNCHANGED listeners
    /\ UNCHANGED <<bvars, rvars, fvars>>

LoggerIdle ==
    /\ notifications = <<>>
    /\ listeners = <<>>
    /\ emitted = 0
    /\ snapshot = <<>>
    /\ ltrace = <<>>

\* ------------------------------------------------------------------------
\* ErrorHandler (the facade)
\* ------------------------------------------------------------------------
\* dependency names: calls are made under the names of CallNames, the other
\* names are only registered, queried and reset
FNames == {"a", "b"}
CallNames == {"a"}
\* fallback producers; producer f returns the value f
FallbackIds == {1, 2}
\* the circuitBreaker options calls pass, after the constructor's defaults
FacadeConfigs ==
    <<[failureThreshold |-> 1, resetTimeout |-> 1, monitoringPeriod |-> 1],
      [failureThreshold |-> 2, resetTimeout |-> 1, monitoringPeriod |-> 1]>>
\* the retry options calls pass: { maxAttempts: k }
FacadeAttempts == {1, 2}

OpenMessage == "Circuit breaker is OPEN"
\* throw new Error("Circuit breaker is OPEN")
OpenError ==
    [isObject |-> TRUE, hasStatus |-> FALSE, status |-> 0, message |-> OpenMessage,
     origin |-> "breaker", id |-> 0]
NoFacadeError ==
    [isObject |-> FALSE, hasStatus |-> FALSE, status |-> 0, message |-> "",
     origin |-> "none", id |-> 0]
\* what the operation can throw: an Error, an error with a 4xx status, an Error
\* whose message is the breaker's
OpErrorKinds ==
    {[hasStatus |-> FALSE, status |-> 0, message |-> "failed"],
     [hasStatus |-> TRUE, status |-> 400, message |-> "failed"],
     [hasStatus |-> FALSE, status |-> 0, message |-> OpenMessage]}
OpError(k, i) ==
    [isObject |-> TRUE, hasStatus |-> k.hasStatus, status |-> k.status, message |-> k.message,
     origin |-> "op", id |-> i]

FReturned(v) == [kind |-> "returned", value |-> v, error |-> NoFacadeError]
FThrown(e) == [kind |-> "thrown", value |-> 0, error |-> e]
FPending == [kind |-> "none", value |-> 0, error |-> NoFacadeError]
\* the value the operation resolves with
OpValue == 0

LogEv(level, tag, n) == Ev("log", [level |-> level, message |-> tag, service |-> n])

\* error && typeof error === "object" && "message" in error && error.message === "Circuit breaker is OPEN"
isOpenError(e) == e.isObject /\ e.message = OpenMessage

\* variant: the fallback is used without a warning being logged
wcbCatch_Silent(e, fb, n) ==
    IF isOpenError(e) /\ fb # 0
    THEN [out |-> FReturned(fb), ev |-> <<Ev("fallback", fb)>>]
    ELSE [out |-> FThrown(e), ev |-> <<>>]

\* variant: an open-circuit rejection is swallowed when no fallback is registered
wcbCatch_Swallows(e, fb, n) ==
    IF isOpenError(e)
    THEN [out |-> FReturned(fb),
          ev |-> <<LogEv("warning", "open, using fallback", n), Ev("fallback", fb)>>]
    ELSE [out |-> FThrown(e), ev |-> <<>>]

\* the catch block of withCircuitBreaker: fb is this.fallbacks.get(name)
wcbCatch(e, fb, n) ==
    IF isOpenError(e) /\ fb # 0
    THEN [out |-> FReturned(fb),
          ev |-> <<LogEv("warning", "open, using fallback", n), Ev("fallback", fb)>>]
    ELSE [out |-> FThrown(e), ev |-> <<>>]

\* variant: the fallback is used without the failure being logged
wehCatch_FallbackHidesError(e, fb, n) ==
    IF fb # 0
    THEN [out |-> FReturned(fb),
          ev |-> <<LogEv("info", "using fallback", n), Ev("fallback", fb)>>]
    ELSE [out |-> FThrown(e), ev |-> <<LogEv("error", "failed", n)>>]

\* variant: the error is wrapped before it is rethrown
wehCatch_Wraps(e, fb, n) ==
    IF fb # 0
    THEN [out |-> FReturned(fb),
          ev |-> <<LogEv("error", "failed", n), LogEv("info", "using fallback", n),
                   Ev("fallback", fb)>>]
    ELSE [out |-> FThrown([e EXCEPT !.origin = "wrapper"]), ev |-> <<LogEv("error", "failed", n)>>]

\* variant: the fallback option is ignored and the error is rethrown
wehCatch_Rethrows(e, fb, n) ==
    [out |-> FThrown(e), ev |-> <<LogEv("error", "failed", n)>>]

\* the catch block of withErrorHandling: fb is the fallback option of this call
wehCatch(e, fb, n) ==
    IF fb # 0
    THEN [out |-> FReturned(fb),
          ev |-> <<LogEv("error", "failed", n), LogEv("info", "using fallback", n),
                   Ev("fallback", fb)>>]
    ELSE [out |-> FThrown(e), ev |-> <<LogEv("error", "failed", n)>>]

\* what the caller of the facade call gets once the chain has settled with o
\* (the chain is withCircuitBreaker's promise, or operation()'s)
finish(c, o) ==
    IF c.kind = "weh" /\ o.kind = "thrown"
    THEN wehCatch(o.error, c.fallback, c.name)
    ELSE [out |-> o, ev |-> <<>>]

\* variant: a name keeps the first producer registered for it
registerFallback_FirstWins(fbs, n, f) ==
    IF fbs[n] = 0 THEN [fbs EXCEPT ![n] = f] ELSE fbs

\* this.fallbacks.set(name, fallback)
registerFallback(fbs, n, f) == [fbs EXCEPT ![n] = f]

\* variant: an existing breaker takes over the options of the latest call
getOrCreate_LastConfigWins(cbs, n, cfg) ==
    IF cbs[n] = <<>>
    THEN [cbs EXCEPT ![n] = <<[b |-> NewBreaker, o |-> cfg]>>]
    ELSE [cbs EXCEPT ![n] = <<[b |-> cbs[n][1].b, o |-> cfg]>>]

\* if (!this.circuitBreakers.has(name)) this.circuitBreakers.set(name, new CircuitBreaker(options))
getOrCreate(cbs, n, cfg) ==
    IF cbs[n] = <<>>
    THEN [cbs EXCEPT ![n] = <<[b |-> NewBreaker, o |-> cfg]>>]
    ELSE cbs

IdleCall ==
    [pc |-> "idle", kind |-> "none", name |-> "a", fallback |-> 0, retry |-> 0, cb |-> 0,
     attempt |-> 0, invoked |-> 0, out |-> FPending]

\* the arguments of a facade call: withRetry(fn, options) (it takes no name,
\* the field is unused), withCircuitBreaker(name, fn, options) or
\* withErrorHandling(fn, {name, fallback?, retry?, circuitBreaker?})
FacadeArgs ==
    [kind : {"wr"}, name : CallNames, fallback : {0}, retry : FacadeAttempts, cb : {0}]
    \cup [kind : {"wcb"}, name : CallNames, fallback : {0}, retry : {0}, cb : {1, 2}]
    \cup [kind : {"weh"}, name : CallNames, fallback : {0} \cup FallbackIds,
          retry : {0} \cup FacadeAttempts, cb : {0, 1, 2}]

RetryOpts(c) ==
    mergeOptions(defaultOptions,
                 [maxAttempts |-> <<c.retry>>, initialDelay |-> <<>>, maxDelay |-> <<>>,
                  backoffMultiplier |-> <<>>, retryCondition |-> <<>>])

\* a caller invokes withRetry, withCircuitBreaker or withErrorHandling: everything up to the first await
FacadeCall(a) ==
    LET fb1 == IF a.kind = "weh" /\ a.fallback # 0
               THEN registerFallback(fallbacks, a.name, a.fallback) ELSE fallbacks
        cbs1 == IF a.cb # 0
                THEN getOrCreate(circuitBreakers, a.name, FacadeConfigs[a.cb])
                ELSE circuitBreakers
        entry == cbs1[a.name][1]
        r == executeEntry(entry.b, entry.o, now)
        c0 == [pc |-> "idle", kind |-> a.kind, name |-> a.name, fallback |-> a.fallback,
               retry |-> a.retry, cb |-> a.cb, attempt |-> 0, invoked |-> 0, out |-> FPending]
    IN  /\ call.pc = "idle"
        /\ fallbacks' = fb1
        /\ IF a.cb # 0
           THEN /\ circuitBreakers' = [cbs1 EXCEPT ![a.name] = <<[b |-> r.b, o |-> entry.o]>>]
                /\ IF r.admitted
                   THEN /\ call' = [c0 EXCEPT !.pc = "running", !.attempt = 1, !.invoked = 1]
                        /\ ftrace' = <<Ev("call", a.kind)>> \o r.ev
                   ELSE /\ call' = [c0 EXCEPT !.pc = "rejected"]
                        /\ ftrace' = <<Ev("call", a.kind)>> \o r.ev
           ELSE /\ circuitBreakers' = circuitBreakers
                /\ call' = [c0 EXCEPT !.pc = "running", !.attempt = 1, !.invoked = 1]
                /\ ftrace' = <<Ev("call", a.kind), Ev("fn", 0)>>
        /\ UNCHANGED <<bvars, rvars, lvars>>

\* the chain has settled with ok (the operation's value) or with error e:
\* execute's onSuccess/onFailure, withCircuitBreaker's catch, withErrorHandling's catch
Settle(ok, e, pre) ==
    LET n == call.name
        entry == circuitBreakers[n][1]
        r == IF ok THEN onSuccess(entry.b, entry.o, now) ELSE onFailure(entry.b, entry.o, now)
        inner == IF ok THEN [out |-> FReturned(OpValue), ev |-> <<>>]
                 ELSE IF call.cb # 0 THEN wcbCatch(e, fallbacks[n], n)
                 ELSE [out |-> FThrown(e), ev |-> <<>>]
        outer == finish(call, inner.out)
    IN  /\ circuitBreakers' = IF call.cb # 0
                              THEN [circuitBreakers EXCEPT ![n] = <<[b |-> r.b, o |-> entry.o]>>]
                              ELSE circuitBreakers
        /\ call' = [call EXCEPT !.pc = outer.out.kind, !.out = outer.out]
        /\ ftrace' = pre \o (IF call.cb # 0 THEN r.ev ELSE <<>>) \o inner.ev \o outer.ev
        /\ UNCHANGED fallbacks

\* the awaited fn() resolves
FacadeFnResolves ==
    /\ call.pc = "running"
    /\ Settle(TRUE, NoFacadeError, <<Ev("resolved", call.invoked)>>)
    /\ UNCHANGED <<bvars, rvars, lvars>>

\* variant: the breaker wraps each attempt, every failed attempt is a breaker failure
FacadeFnRejects_CountsEveryAttempt(k) ==
    LET e == OpError(k, call.invoked)
        n == call.name
        entry == circuitBreakers[n][1]
        r == onFailure(entry.b, entry.o, now)
    IN  /\ call.pc = "running"
        /\ IF call.retry # 0 /\ ~shouldThrow(call.attempt, RetryOpts(call), e)
           THEN /\ call' = [call EXCEPT !.pc = "sleeping"]
                /\ ftrace' = <<Ev("rejected", e), Ev("onRetry", call.attempt), Ev("setTimeout", 0)>>
                /\ circuitBreakers' = IF call.cb # 0
                                      THEN [circuitBreakers EXCEPT ![n] = <<[b |-> r.b, o |-> entry.o]>>]
                                      ELSE circuitBreakers
                /\ UNCHANGED fallbacks
           ELSE Settle(FALSE, e, <<Ev("rejected", e)>>)
        /\ UNCHANGED <<bvars, rvars, lvars>>

\* the awaited fn() rejects with an error of kind k: the retry loop, if any, decides first
FacadeFnRejects(k) ==
    LET e == OpError(k, call.invoked)
    IN  /\ call.pc = "running"
        /\ IF call.retry # 0 /\ ~shouldThrow(call.attempt, RetryOpts(call), e)
           THEN /\ call' = [call EXCEPT !.pc = "sleeping"]
                /\ ftrace' = <<Ev("rejected", e), Ev("onRetry", call.attempt), Ev("setTimeout", 0)>>
                /\ UNCHANGED <<circuitBreakers, fallbacks>>
           ELSE Settle(FALSE, e, <<Ev("rejected", e)>>)
        /\ UNCHANGED <<bvars, rvars, lvars>>

\* the timer of the retry loop's sleep fires: next attempt
FacadeTimerFires ==
    /\ call.pc = "sleeping"
    /\ IF loopContinues(call.attempt + 1, RetryOpts(call))
       THEN /\ call' = [call EXCEPT !.pc = "running", !.attempt = call.attempt + 1,
                                    !.invoked = call.invoked + 1]
            /\ ftrace' = <<Ev("timer", 0), Ev("fn", 0)>>
            /\ UNCHANGED <<circuitBreakers, fallbacks>>
       ELSE Settle(FALSE, NoFacadeError, <<Ev("timer", 0)>>)
    /\ UNCHANGED <<bvars, rvars, lvars>>

\* the call the breaker rejected resumes in withCircuitBreaker's catch block
FacadeRejectedResumes ==
    LET inner == wcbCatch(OpenError, fallbacks[call.name], call.name)
        outer == finish(call, inner.out)
    IN  /\ call.pc = "rejected"
        /\ call' = [call EXCEPT !.pc = outer.out.kind, !.out = outer.out]
        /\ ftrace' = <<Ev("resumed", 0)>> \o inner.ev \o outer.ev
        /\ UNCHANGED <<circuitBreakers, fallbacks>>
        /\ UNCHANGED <<bvars, rvars, lvars>>

\* the caller has consumed the outcome of the call
FacadeDone ==
    /\ call.pc \in {"returned", "thrown"}
    /\ call' = IdleCall
    /\ ftrace' = <<>>
    /\ UNCHANGED <<circuitBreakers, fallbacks>>
    /\ UNCHANGED <<bvars, rvars, lvars>>

\* the outcome of a settled call is consumed (FacadeDone) before anything else happens
Settled == call.pc \in {"returned", "thrown"}

RegisterFallback(n, f) ==
    /\ ~Settled
    /\ fallbacks' = registerFallback(fallbacks, n, f)
    /\ ftrace' = <<Ev("registerFallback", [name |-> n, fallback |-> f])>>
    /\ UNCHANGED <<circuitBreakers, call>>
    /\ UNCHANGED <<bvars, rvars, lvars>>

\* this.circuitBreakers.get(name)?.getState(): "undefined" when there is no entry
getCircuitBreakerState(cbs, n) ==
    IF cbs[n] = <<>> THEN "undefined" ELSE cbs[n][1].b.state

GetCircuitBreakerState(n) ==
    /\ ~Settled
    /\ ftrace' = <<Ev("getCircuitBreakerState", [name |-> n, result |-> getCircuitBreakerState(circuitBreakers, n)])>>
    /\ UNCHANGED <<circuitBreakers, fallbacks, call>>
    /\ UNCHANGED <<bvars, rvars, lvars>>

\* variant: resetting an unknown name creates its breaker
resetCircuitBreaker_Creates(cbs, n) ==
    IF cbs[n] = <<>> THEN [cbs EXCEPT ![n] = <<[b |-> NewBreaker, o |-> FacadeConfigs[1]]>>]
    ELSE [cbs EXCEPT ![n] = <<[b |-> reset(cbs[n][1].b), o |-> cbs[n][1].o]>>]

\* this.circuitBreakers.get(name)?.reset()
resetCircuitBreaker(cbs, n) ==
    IF cbs[n] = <<>> THEN cbs
    ELSE [cbs EXCEPT ![n] = <<[b |-> reset(cbs[n][1].b), o |-> cbs[n][1].o]>>]

ResetCircuitBreaker(n) ==
    /\ ~Settled
    /\ circuitBreakers' = resetCircuitBreaker(circuitBreakers, n)
    /\ ftrace' = <<Ev("resetCircuitBreaker", [name |-> n, result |-> "undefined"])>>
    /\ UNCHANGED <<fallbacks, call>>
    /\ UNCHANGED <<bvars, rvars, lvars>>

FacadeTick ==
    /\ ~Settled
    /\ now < StartTime + MaxFacadeTicks
    /\ now' = now + 1
    /\ ftrace' = <<Ev("tick", 0)>>
    /\ UNCHANGED <<breaker, options, pending, trace, run, sinceReset>>
    /\ UNCHANGED <<circuitBreakers, fallbacks, call>>
    /\ UNCHANGED <<rvars, lvars>>

\* ---- the facade together with its ErrorLogger and subscribed listeners ----
\* the log calls of a catch block, run in order on the logger: evs is what the
\* block does when no listener throws, ths[i] is the listener that throws in
\* its i-th log call (0: none); a throw ends the block
RECURSIVE deliver(_, _, _, _, _, _)
deliver(buf, k, ls, evs, ths, t) ==
    IF evs = <<>> THEN [buf |-> buf, ev |-> <<>>, threw |-> 0, logged |-> 0]
    ELSE LET e == Head(evs)
         IN  IF e.name # "log"
             THEN LET rest == deliver(buf, k, ls, Tail(evs), ths, t)
                  IN  [rest EXCEPT !.ev = <<e>> \o rest.ev]
             ELSE LET r == logCall(buf, ls,
                                   [level |-> e.arg.level, seq |-> k + 1, timestamp |-> t],
                                   Head(ths))
                  IN  IF r.threw # 0
                      THEN [buf |-> r.buf, ev |-> <<e>> \o r.ev, threw |-> r.threw, logged |-> 1]
                      ELSE LET rest == deliver(r.buf, k + 1, ls, Tail(evs), Tail(ths), t)
                           IN  [buf |-> rest.buf, ev |-> <<e>> \o r.ev \o rest.ev,
                                threw |-> rest.threw, logged |-> rest.logged + 1]

\* the outcome of a catch block whose log calls were delivered as d
caught(r, d) == IF d.threw # 0 THEN FThrown(ListenerError(d.threw)) ELSE r.out

\* the calls followed with the logger: withErrorHandling without retry
NotifyArgs ==
    [kind : {"weh"}, name : CallNames, fallback : {0, 1}, retry : {0}, cb : {0, 1}]

\* which listener throws in the first, second and third log call of a step
Throwers == [1..3 -> 0..MaxListeners]

NotifiedCall(a) ==
    /\ emitted + 3 <= MaxNotified
    /\ FacadeCall(a)

\* the chain has failed with error e: withCircuitBreaker's catch, then
\* withErrorHandling's, each log call going through ErrorLogger.log
NotifiedSettle(e, pre, cbs, ths) ==
    LET n == call.name
        inner0 == IF call.cb # 0 THEN wcbCatch(e, fallbacks[n], n)
                  ELSE [out |-> FThrown(e), ev |-> <<>>]
        d1 == deliver(notifications, emitted, listeners, inner0.ev, <<ths[1]>>, now)
        outer0 == finish(call, caught(inner0, d1))
        d2 == deliver(d1.buf, emitted + d1.logged, listeners, outer0.ev, <<ths[2], ths[3]>>, now)
        out == caught(outer0, d2)
    IN  /\ \A i \in 1..3 : ths[i] <= Len(listeners)
        /\ d1.logged = 0 => ths[1] = 0
        /\ d2.logged < 2 => ths[3] = 0
        /\ d2.logged = 0 => ths[2] = 0
        /\ notifications' = d2.buf
        /\ emitted' = emitted + d1.logged + d2.logged
        /\ circuitBreakers' = cbs
        /\ call' = [call EXCEPT !.pc = out.kind, !.out = out]
        /\ ftrace' = pre \o d1.ev \o d2.ev
        /\ UNCHANGED <<fallbacks, listeners, snapshot, ltrace>>
        /\ UNCHANGED <<bvars, rvars>>

\* the awaited fn() rejects with an error of kind k
NotifiedFnRejects(k, ths) ==
    LET e == OpError(k, call.invoked)
        n == call.name
        entry == circuitBreakers[n][1]
        r == onFailure(entry.b, entry.o, now)
    IN  /\ call.pc = "running"
        /\ call.retry = 0
        /\ IF call.cb # 0
           THEN NotifiedSettle(e, <<Ev("rejected", e)>> \o r.ev,
                               [circuitBreakers EXCEPT ![n] = <<[b |-> r.b, o |-> entry.o]>>], ths)
           ELSE NotifiedSettle(e, <<Ev("rejected", e)>>, circuitBreakers, ths)

\* the call the breaker rejected resumes in withCircuitBreaker's catch block
NotifiedRejectedResumes(ths) ==
    /\ call.pc = "rejected"
    /\ NotifiedSettle(OpenError, <<Ev("resumed", 0)>>, circuitBreakers, ths)

\* logError(level, message, error, context)
LogError(lv, th) ==
    LET n == [level |-> lv, seq |-> emitted + 1, timestamp |-> now]
        r == logCall(notifications, listeners, n, th)
    IN  /\ ~Settled
        /\ emitted < MaxNotified
        /\ th <= Len(listeners)
        /\ notifications' = r.buf
        /\ emitted' = emitted + 1
        /\ ltrace' = <<Ev("log", n.seq)>> \o r.ev
        /\ snapshot' = <<>>
        /\ UNCHANGED listeners
        /\ UNCHANGED <<bvars, rvars, fvars>>

\* subscribeToErrors(listener), and the function it returned
SubscribeToErrors(l) == ~Settled /\ Subscribe(l)
UnsubscribeFromErrors(l) == ~Settled /\ Unsubscribe(l)

FacadeIdle ==
    /\ circuitBreakers = [n \in FNames |-> <<>>]
    /\ fallbacks = [n \in FNames |-> 0]
    /\ call = IdleCall
    /\ ftrace = <<>>

BreakerIdle ==
    /\ breaker = NewBreaker
    /\ now = StartTime
    /\ pending = [ph \in {CLOSED, HALF_OPEN} |-> 0]
    /\ trace = <<>>
    /\ run = 0
    /\ sinceReset = -1

Init ==
    /\ options \in CircuitBreakerOptions
    /\ BreakerIdle
    /\ RetryIdle
    /\ LoggerIdle
    /\ FacadeIdle

Next ==
    \/ Execute
    \/ \E ph \in {CLOSED, HALF_OPEN} : FnResolved(ph)
    \/ \E ph \in {CLOSED, HALF_OPEN} : FnRejected(ph)
    \/ Reset
    \/ Tick

Spec == Init /\ [][Next]_vars

\* the breaker with calls that keep arriving, operations that settle and time
\* that keeps advancing
NextLive ==
    \/ Next
    \/ TickLate

SpecLive ==
    /\ Init
    /\ [][NextLive]_vars
    /\ WF_vars(Execute)
    /\ WF_vars(Tick \/ TickLate)
    /\ WF_vars(\E ph \in {CLOSED, HALF_OPEN} : FnResolved(ph) \/ FnRejected(ph))

InitRetry ==
    /\ options = [failureThreshold |-> 5, resetTimeout |-> 2, monitoringPeriod |-> 1]
    /\ BreakerIdle
    /\ RetryIdle
    /\ LoggerIdle
    /\ FacadeIdle

NextRetry ==
    \/ \E o \in RetryOptions : RetryCall(o)
    \/ FnResolves
    \/ \E k \in ErrorKinds : FnRejects(k)
    \/ TimerFires
    \/ RetryDone

SpecRetry == InitRetry /\ [][NextRetry]_vars

\* retry calls whose operation always settles and whose timers always fire
SpecRetryLive ==
    /\ InitRetry
    /\ [][NextRetry]_vars
    /\ WF_vars(FnResolves \/ \E k \in ErrorKinds : FnRejects(k))
    /\ WF_vars(TimerFires)

NextLog ==
    \/ \E th \in 0..MaxListeners : Log(th)
    \/ \E l \in ListenerIds : Subscribe(l)
    \/ \E l \in ListenerIds : Unsubscribe(l)
    \/ \E level \in LevelFilters : GetNotifications(level)
    \/ Clear

SpecLog == InitRetry /\ [][NextLog]_vars

NextFacade ==
    \/ \E a \in FacadeArgs : FacadeCall(a)
    \/ FacadeFnResolves
    \/ \E k \in OpErrorKinds : FacadeFnRejects(k)
    \/ FacadeTimerFires
    \/ FacadeRejectedResumes
    \/ FacadeDone
    \/ \E n \in FNames, f \in FallbackIds : RegisterFallback(n, f)
    \/ \E n \in FNames : GetCircuitBreakerState(n)
    \/ \E n \in FNames : ResetCircuitBreaker(n)
    \/ FacadeTick

SpecFacade == InitRetry /\ [][NextFacade]_vars

NextNotify ==
    \/ \E a \in NotifyArgs : NotifiedCall(a)
    \/ FacadeFnResolves
    \/ \E k \in OpErrorKinds, ths \in Throwers : NotifiedFnRejects(k, ths)
    \/ \E ths \in Throwers : NotifiedRejectedResumes(ths)
    \/ FacadeDone
    \/ \E lv \in {"error", "info"}, th \in 0..MaxListeners : LogError(lv, th)
    \/ \E l \in ListenerIds : SubscribeToErrors(l)
    \/ \E l \in ListenerIds : UnsubscribeFromErrors(l)

SpecNotify == InitRetry /\ [][NextNotify]_vars

\* ------------------------------------------------------------------------
\* Properties of the circuit breaker (checked under Spec)
\* ------------------------------------------------------------------------
Names(tr) == [i \in 1..Len(tr) |-> tr[i].name]
Count(tr, n) == Cardinality({i \in 1..Len(tr) : tr[i].name = n})
IsStep(n) == vars' # vars /\ Len(trace') > 0 /\ trace'[1].name = n
Elapsed == now - breaker.lastFailureTime

\* C1: starting Closed with a zero failure counter, the breaker is still
\* Closed after fewer than failureThreshold consecutive failed calls, is Open
\* after the failureThreshold-th, and the next call made before resetTimeout
\* has elapsed is rejected without invoking the operation.
C1_ThresholdOpens ==
    /\ [](run >= 0 /\ run < options.failureThreshold
            => breaker.state = CLOSED /\ breaker.failures = run)
    /\ [][IsStep("rejected") /\ run' = options.failureThreshold
            => breaker'.state = OPEN]_vars
    /\ [][IsStep("execute") /\ run = options.failureThreshold /\ Elapsed < options.resetTimeout
            => /\ Names(trace') = <<"execute", "throw CircuitOpen">>
               /\ pending' = pending
               /\ breaker'.state = OPEN]_vars

C1_Witness ==
    /\ options.failureThreshold = 5
    /\ run = 5
    /\ breaker.state = OPEN
    /\ Names(trace) = <<"execute", "throw CircuitOpen">>

\* C2: a call arriving at an Open breaker before resetTimeout has elapsed
\* since lastFailureTime is rejected with the circuit-open error and does not
\* invoke the wrapped operation.
C2_OpenRejects ==
    [][IsStep("execute") /\ breaker.state = OPEN /\ Elapsed < options.resetTimeout
        => /\ Names(trace') = <<"execute", "throw CircuitOpen">>
           /\ Count(trace', "fn") = 0
           /\ pending' = pending
           /\ breaker' = breaker]_vars

C2_Witness ==
    /\ breaker.state = OPEN
    /\ Elapsed = options.resetTimeout - 1
    /\ Pending > 0
    /\ Names(trace) = <<"execute", "throw CircuitOpen">>

\* C3: a call arriving at an Open breaker once resetTimeout has elapsed moves
\* the breaker to HalfOpen, fires onHalfOpen exactly once, and only then
\* invokes the wrapped operation; onHalfOpen fires on no other step.
C3_HalfOpenProbe ==
    /\ [][IsStep("execute") /\ breaker.state = OPEN /\ Elapsed >= options.resetTimeout
            => /\ Names(trace') = <<"execute", "onHalfOpen", "fn">>
               /\ breaker'.state = HALF_OPEN
               /\ pending'[HALF_OPEN] = pending[HALF_OPEN] + 1]_vars
    /\ [][vars' # vars /\ Count(trace', "onHalfOpen") > 0
            => breaker.state = OPEN /\ breaker'.state = HALF_OPEN
               /\ Count(trace', "onHalfOpen") = 1]_vars

C3_Witness ==
    /\ breaker.state = HALF_OPEN
    /\ Elapsed = options.resetTimeout
    /\ Names(trace) = <<"execute", "onHalfOpen", "fn">>

\* C4: a success completing while HalfOpen increments successCount; the
\* breaker stays HalfOpen after 1 or 2 successes and on the 3rd it becomes
\* Closed with failures = 0 and successCount = 0, firing onClose exactly once.
C4_HalfOpenCloses ==
    /\ [](breaker.successCount \in 0..2
            /\ (breaker.successCount > 0 => breaker.state = HALF_OPEN))
    /\ [][IsStep("resolved") /\ breaker.state = HALF_OPEN
            => IF breaker.successCount < 2
               THEN /\ breaker'.successCount = breaker.successCount + 1
                    /\ breaker'.state = HALF_OPEN
                    /\ Count(trace', "onClose") = 0
               ELSE /\ breaker'.state = CLOSED
                    /\ breaker'.failures = 0
                    /\ breaker'.successCount = 0
                    /\ Count(trace', "onClose") = 1]_vars

C4_Witness ==
    /\ breaker.state = CLOSED
    /\ breaker.failures = 0
    /\ breaker.lastFailureTime > 0
    /\ Names(trace) = <<"resolved", "onClose">>

\* C5: a failure completing while HalfOpen moves the breaker back to Open,
\* zeroes successCount, records lastFailureTime = now and fires onOpen, for
\* every failureThreshold and any number of preceding HalfOpen successes.
C5_HalfOpenFailureReopens ==
    [][IsStep("rejected") /\ breaker.state = HALF_OPEN
        => /\ breaker'.state = OPEN
           /\ breaker'.successCount = 0
           /\ breaker'.lastFailureTime = now
           /\ Names(trace') = <<"rejected", "onOpen">>]_vars

C5_Witness ==
    /\ breaker.state = OPEN
    /\ breaker.failures > options.failureThreshold
    /\ breaker.lastFailureTime = now
    /\ Names(trace) = <<"rejected", "onOpen">>

\* C19: reset() in any phase leaves the breaker Closed with failures,
\* successCount and lastFailureTime all 0 and fires no hook; the next call is
\* admitted, and the breaker stays Closed until failureThreshold failures
\* have completed after the reset.
C19_ResetRestarts ==
    /\ [](sinceReset >= 0 /\ sinceReset < options.failureThreshold
            => breaker.state = CLOSED)
    /\ [][IsStep("reset")
            => /\ breaker' = NewBreaker
               /\ Names(trace') = <<"reset">>
               /\ pending' = pending]_vars
    /\ [][IsStep("execute") /\ Names(trace) = <<"reset">>
            => Names(trace') = <<"execute", "fn">> /\ breaker' = breaker]_vars

C19_Witness ==
    /\ sinceReset = options.failureThreshold
    /\ options.failureThreshold = 3
    /\ breaker.state = OPEN
    /\ breaker.failures = 3
    /\ Names(trace) = <<"rejected", "onOpen">>

\* C20: with calls that keep arriving and time that keeps advancing, an Open
\* breaker eventually admits a call as the HalfOpen probe (or has been
\* reset to Closed).
C20_EventuallyProbes ==
    (breaker.state = OPEN)
        ~> (Names(trace) = <<"execute", "onHalfOpen", "fn">> \/ breaker.state = CLOSED)

C20_Witness ==
    /\ breaker.state = HALF_OPEN
    /\ sinceReset = -1
    /\ now = StartTime + MaxTicks
    /\ Elapsed = options.resetTimeout
    /\ Names(trace) = <<"execute", "onHalfOpen", "fn">>

\* C23 (as stated): the breaker is Open exactly when the failure counter has
\* reached the threshold and less than resetTimeout has passed since the last
\* failure.
C23_OpenIff ==
    breaker.state = OPEN
        <=> /\ breaker.failures >= options.failureThreshold
            /\ now - breaker.lastFailureTime < options.resetTimeout

\* C23 (amended): the failure counter has reached the threshold exactly when
\* the breaker is not Closed; it is Open whenever less than resetTimeout has
\* passed since the last failure, stays Open after that until the next call
\* arrives, and is HalfOpen only after resetTimeout has passed.
C23_PhaseAndCounter ==
    /\ (breaker.state = CLOSED) <=> (breaker.failures < options.failureThreshold)
    /\ (breaker.failures >= options.failureThreshold
            /\ now - breaker.lastFailureTime < options.resetTimeout)
        => breaker.state = OPEN
    /\ breaker.state = HALF_OPEN
        => now - breaker.lastFailureTime >= options.resetTimeout

C23_Witness ==
    /\ breaker.state = OPEN
    /\ breaker.failures >= options.failureThreshold
    /\ now - breaker.lastFailureTime > options.resetTimeout
    /\ trace = <<Ev("tick", 0)>>

\* C24: a call that resolves while the breaker is Closed zeroes the failure
\* counter when more than monitoringPeriod has passed since the last failure
\* and leaves it alone otherwise; the phase, lastFailureTime and the success
\* counter are unchanged and no hook fires.
C24_ClosedSuccess ==
    [][IsStep("resolved") /\ breaker.state = CLOSED
        => /\ breaker'.state = CLOSED
           /\ breaker'.lastFailureTime = breaker.lastFailureTime
           /\ breaker'.successCount = breaker.successCount
           /\ breaker'.failures =
                IF now - breaker.lastFailureTime > options.monitoringPeriod
                THEN 0 ELSE breaker.failures
           /\ Names(trace') = <<"resolved">>]_vars

C24_Witness ==
    /\ Names(trace) = <<"resolved">>
    /\ breaker.state = CLOSED
    /\ breaker.failures = options.failureThreshold - 1
    /\ breaker.failures >= 2
    /\ now - breaker.lastFailureTime <= options.monitoringPeriod
    /\ run = -1

\* C25: every failed call adds exactly one to the failure counter, leaves the
\* breaker Open whenever the counter is then at or above the threshold, and
\* fires onOpen exactly when the phase changes to Open; so of two calls in
\* flight at threshold - 1 failures the first to fail opens the breaker with
\* onOpen and the second leaves it Open at threshold + 1 without onOpen.
C25_NoLostFailure ==
    /\ [][IsStep("rejected")
            => /\ breaker'.failures = breaker.failures + 1
               /\ breaker'.state =
                    IF breaker.failures + 1 >= options.failureThreshold
                    THEN OPEN ELSE breaker.state
               /\ Count(trace', "onOpen") =
                    IF breaker.state # OPEN /\ breaker'.state = OPEN THEN 1 ELSE 0]_vars
    /\ [][(IsStep("rejected")
            /\ breaker.state = CLOSED
            /\ pending[CLOSED] >= 2
            /\ breaker.failures = options.failureThreshold - 1)
            => /\ breaker'.state = OPEN
               /\ breaker'.failures = options.failureThreshold
               /\ Names(trace') = <<"rejected", "onOpen">>
               /\ trace'[2].arg = options.failureThreshold]_vars
    /\ [][(IsStep("rejected")
            /\ breaker.state = OPEN
            /\ breaker.failures = options.failureThreshold)
            => /\ breaker'.state = OPEN
               /\ breaker'.failures = options.failureThreshold + 1
               /\ Names(trace') = <<"rejected">>]_vars

C25_Witness ==
    /\ breaker.state = OPEN
    /\ breaker.failures = options.failureThreshold + 1
    /\ options.failureThreshold >= 2
    /\ pending[CLOSED] = 0 /\ pending[HALF_OPEN] = 0
    /\ trace = <<Ev("rejected", CLOSED)>>
    /\ run = options.failureThreshold + 1

\* C28 (as stated): a call admitted while the breaker was Closed that resolves
\* while the breaker is HalfOpen leaves the success counter and the phase
\* alone.
C28_OnlyProbesCount ==
    [][(IsStep("resolved") /\ trace'[1].arg = CLOSED /\ breaker.state = HALF_OPEN)
        => /\ breaker'.successCount = breaker.successCount
           /\ breaker'.state = HALF_OPEN]_vars

\* C28 (amended): every call that resolves while the breaker is HalfOpen
\* counts, whichever phase admitted it: it adds one to the success counter,
\* and the third closes the breaker with onClose; a call that resolves while
\* the breaker is Open changes nothing.
C28_AnySuccessCounts ==
    /\ [][(IsStep("resolved") /\ breaker.state = HALF_OPEN)
            => IF breaker.successCount < 2
               THEN /\ breaker' = [breaker EXCEPT !.successCount = breaker.successCount + 1]
                    /\ Names(trace') = <<"resolved">>
               ELSE /\ breaker' = [breaker EXCEPT !.state = CLOSED, !.failures = 0,
                                                  !.successCount = 0]
                    /\ Names(trace') = <<"resolved", "onClose">>]_vars
    /\ [][(IsStep("resolved") /\ breaker.state = OPEN)
            => breaker' = breaker /\ Names(trace') = <<"resolved">>]_vars

C28_Witness ==
    /\ trace = <<Ev("resolved", CLOSED), Ev("onClose", 0)>>
    /\ breaker.state = CLOSED
    /\ breaker.failures = 0
    /\ sinceReset = -1

\* C29 (as stated): as long as the breaker stays Open its lastFailureTime and
\* its failure counter do not change.
C29_OpenFreezes ==
    [][(breaker.state = OPEN /\ breaker'.state = OPEN)
        => /\ breaker'.lastFailureTime = breaker.lastFailureTime
           /\ breaker'.failures = breaker.failures]_vars

\* C29 (amended): while the breaker stays Open, a rejected call, a success of
\* a call in flight and the passing of time change nothing in it; the failure
\* of a call that was in flight adds one to the failure counter and moves
\* lastFailureTime to the time of that failure, so the probe is permitted
\* resetTimeout after the last such failure.
C29_OnlyInFlightFailuresMove ==
    /\ [][(breaker.state = OPEN /\ breaker'.state = OPEN)
            => IF IsStep("rejected")
               THEN /\ breaker' = [breaker EXCEPT !.failures = breaker.failures + 1,
                                                  !.lastFailureTime = now]
                    /\ Names(trace') = <<"rejected">>
               ELSE breaker' = breaker]_vars
    /\ [][(IsStep("execute") /\ breaker.state = OPEN)
            => (breaker'.state = HALF_OPEN
                    <=> now - breaker.lastFailureTime >= options.resetTimeout)]_vars

C29_Witness ==
    /\ breaker.state = OPEN
    /\ Names(trace) = <<"rejected">>
    /\ breaker.lastFailureTime = now
    /\ now = StartTime + options.resetTimeout
    /\ breaker.failures = options.failureThreshold + 1
    /\ sinceReset = -1

\* ------------------------------------------------------------------------
\* Properties of RetryHandler.retry (checked under SpecRetry)
\* ------------------------------------------------------------------------
IsRStep(n) == vars' # vars /\ Len(rtrace') > 0 /\ rtrace'[1].name = n
RECURSIVE Pow(_, _)
Pow(b, n) == IF n = 0 THEN 1 ELSE b * Pow(b, n - 1)

\* C6 (as stated): an operation that fails on every call is invoked exactly
\* maxAttempts times before retry raises, whatever the policy.
C6_AlwaysExactlyN ==
    rpc = "thrown" /\ firstOk = 0 => calls = opts.maxAttempts

\* C6 (amended): an operation that fails on every call is invoked at most
\* maxAttempts times and then retry raises; fewer than maxAttempts times only
\* when the retry predicate rejected the error of the last invocation.
C6_AtMostN ==
    /\ calls <= opts.maxAttempts
    /\ rpc = "thrown" /\ firstOk = 0
         => \/ calls = opts.maxAttempts
            \/ calls >= 1 /\ outcome.error.id = calls /\ ~retryCondition(opts, outcome.error)

C6_Witness ==
    /\ rpc = "thrown"
    /\ firstOk = 0
    /\ opts.maxAttempts = 4
    /\ calls = 4

\* C7: when the k-th invocation is the first to succeed, the operation has
\* been invoked exactly k times, retry returns that invocation's result, no
\* further attempt is started, and invocations never overlap.
C7_FirstSuccessReturns ==
    /\ inflight \in 0..1
    /\ firstOk > 0
         => /\ rpc = "returned"
            /\ calls = firstOk
            /\ firstOk <= opts.maxAttempts
            /\ outcome = Returned(firstOk)
            /\ inflight = 0

C7_Witness ==
    /\ rpc = "returned"
    /\ firstOk = 3
    /\ opts.maxAttempts = 5
    /\ outcome.call = 3

\* C8: for maxDelay >= initialDelay and backoffMultiplier >= 1, the delay
\* slept before attempt i (i > 1) is min(initialDelay * multiplier^(i-2),
\* maxDelay), and it never decreases from one sleep to the next.
C8_BackoffDelay ==
    [][IsRStep("rejected") /\ rpc' = "sleeping"
         /\ opts.maxDelay >= opts.initialDelay /\ opts.backoffMultiplier >= 1
        => /\ rtrace'[3] = Ev("setTimeout",
                              Min(opts.initialDelay * Pow(opts.backoffMultiplier, attempt - 1),
                                  opts.maxDelay))
           /\ slept' = rtrace'[3].arg
           /\ slept' >= slept]_vars

C8_Witness ==
    /\ rpc = "sleeping"
    /\ opts.initialDelay = 100 /\ opts.backoffMultiplier = 2 /\ opts.maxDelay = 1000
    /\ attempt = 5
    /\ slept = 1000

\* C9: when an attempt fails and it was attempt number maxAttempts or the
\* retry predicate rejects the error, retry raises that very error at once:
\* no onRetry, no sleep, no further invocation.
C9_ImmediateRaise ==
    [][IsRStep("rejected")
         /\ (attempt = opts.maxAttempts \/ ~retryCondition(opts, rtrace'[1].arg))
        => /\ Names(rtrace') = <<"rejected", "throw">>
           /\ rpc' = "thrown"
           /\ rtrace'[1].arg.id = calls
           /\ outcome' = Thrown(rtrace'[1].arg)
           /\ calls' = calls
           /\ inflight' = 0
           /\ slept' = slept]_vars

C9_Witness ==
    /\ rpc = "thrown"
    /\ opts.maxAttempts = 3
    /\ opts.retryCondition = "never"
    /\ calls = 1
    /\ outcome.error.id = 1
    /\ Names(rtrace) = <<"rejected", "throw">>

C21_RetryTerminates ==
    /\ [](/\ calls <= opts.maxAttempts
          /\ sleeps <= (IF opts.maxAttempts > 0 THEN opts.maxAttempts - 1 ELSE 0)
          /\ sleeps <= calls)
    /\ (rpc \in {"running", "sleeping"}) ~> (rpc \in {"returned", "thrown"})

C21_Witness ==
    /\ rpc = "thrown"
    /\ opts.retryCondition = "always"
    /\ opts.maxAttempts = MaxAttempts
    /\ calls = MaxAttempts
    /\ sleeps = MaxAttempts - 1

\* ------------------------------------------------------------------------
\* Properties of ErrorLogger (checked under SpecLog)
\* ------------------------------------------------------------------------
IsLStep(n) == vars' # vars /\ Len(ltrace') > 0 /\ ltrace'[1].name = n

\* C17: after any sequence of log, clear and getNotifications calls the
\* buffer holds at most 1000 events, the newest ones, in emission order; a log
\* call on a full buffer evicts the oldest event, so after 1001 events the
\* first is absent and the newest 1000 remain in order.
C17_BufferBounded ==
    /\ [](/\ Len(notifications) = IF emitted <= 1000 THEN emitted ELSE 1000
          /\ \A i \in 1..Len(notifications) :
                notifications[i].seq = emitted - Len(notifications) + i)
    /\ [][IsLStep("log")
            => /\ notifications'[Len(notifications')].seq = emitted + 1
               /\ IF Len(notifications) < 1000
                  THEN SubSeq(notifications', 1, Len(notifications)) = notifications
                  ELSE SubSeq(notifications', 1, 999) = Tail(notifications)]_vars
    /\ [][IsLStep("getNotifications") => notifications' = notifications]_vars

C17_Witness ==
    /\ emitted = 1001
    /\ Len(notifications) = 1000
    /\ notifications[1].seq = 2
    /\ notifications[1000].seq = 1001

\* ------------------------------------------------------------------------
\* Properties of ErrorHandler (checked under SpecFacade)
\* ------------------------------------------------------------------------
IsFStep(n) == vars' # vars /\ Len(ftrace') > 0 /\ ftrace'[1].name = n
LogsOf(tr) == SelectSeq(tr, LAMBDA e : e.name = "log")
FallbacksOf(tr) == SelectSeq(tr, LAMBDA e : e.name = "fallback")
LogLevels(tr) == [i \in 1..Len(LogsOf(tr)) |-> LogsOf(tr)[i].arg.level]
\* the call is over and its operation never resolved
FailedCall == Settled /\ ftrace[1].name # "resolved"

C16_QueriesCreateNothing ==
    /\ [][IsFStep("getCircuitBreakerState")
            => /\ circuitBreakers' = circuitBreakers
               /\ circuitBreakers[ftrace'[1].arg.name] = <<>>
                    <=> ftrace'[1].arg.result = "undefined"]_vars
    /\ [][IsFStep("resetCircuitBreaker") /\ circuitBreakers[ftrace'[1].arg.name] = <<>>
            => circuitBreakers' = circuitBreakers]_vars
    /\ [][\A n \in FNames : circuitBreakers[n] = <<>> /\ circuitBreakers'[n] # <<>>
            => IsFStep("call") /\ call'.name = n /\ call'.cb # 0]_vars

C16_Witness ==
    /\ ftrace = <<Ev("getCircuitBreakerState", [name |-> "b", result |-> "undefined"])>>
    /\ circuitBreakers["b"] = <<>>
    /\ circuitBreakers["a"] # <<>>

\* C18: the first call through the breaker of a name creates it with that
\* call's options; later calls reuse it with its counters and its options,
\* whatever options they pass; an entry is never removed and its options
\* never change.
C18_FirstConfigWins ==
    /\ [][IsFStep("call") /\ call'.cb # 0
            => LET n == call'.name
               IN  IF circuitBreakers[n] = <<>>
                   THEN /\ circuitBreakers'[n] # <<>>
                        /\ circuitBreakers'[n][1].o = FacadeConfigs[call'.cb]
                        /\ circuitBreakers'[n][1].b = NewBreaker
                   ELSE /\ circuitBreakers'[n][1].o = circuitBreakers[n][1].o
                        /\ circuitBreakers'[n][1].b.failures = circuitBreakers[n][1].b.failures
                        /\ circuitBreakers'[n][1].b.successCount = circuitBreakers[n][1].b.successCount
                        /\ circuitBreakers'[n][1].b.lastFailureTime = circuitBreakers[n][1].b.lastFailureTime
                        /\ circuitBreakers'[n][1].b.state # circuitBreakers[n][1].b.state
                             => circuitBreakers[n][1].b.state = OPEN]_vars
    /\ [][\A n \in FNames : circuitBreakers[n] # <<>>
            => circuitBreakers'[n] # <<>> /\ circuitBreakers'[n][1].o = circuitBreakers[n][1].o]_vars

C18_Witness ==
    /\ circuitBreakers["a"] # <<>>
    /\ circuitBreakers["a"][1].o = FacadeConfigs[2]
    /\ circuitBreakers["a"][1].b.failures = 1
    /\ call.cb = 1
    /\ call.pc = "running"

\* C22: a facade call whose operation failed or was rejected returns normally
\* only with the value of a fallback registered for its name; with no
\* fallback registered for the name, and always for withRetry, it raises the
\* operation's error or the circuit-open error.
C22_NoSilentSwallow ==
    /\ FailedCall /\ call.out.kind = "returned"
        => /\ call.kind \in {"wcb", "weh"}
           /\ fallbacks[call.name] # 0
           /\ call.out.value \in FallbackIds
           /\ FallbacksOf(ftrace) = <<Ev("fallback", call.out.value)>>
    /\ FailedCall /\ (fallbacks[call.name] = 0 \/ call.kind = "wr")
        => /\ call.out.kind = "thrown"
           /\ \/ call.invoked = 0 /\ call.out.error = OpenError
              \/ /\ call.invoked > 0
                 /\ call.out.error.origin = "op"
                 /\ call.out.error.id = call.invoked

C22_Witness ==
    /\ call.kind = "wr" /\ call.retry = 2
    /\ call.pc = "thrown"
    /\ call.invoked = 2
    /\ fallbacks[call.name] # 0

\* the breaker of the name of the call in progress
CallBreaker == circuitBreakers[call.name][1].b
CallBreakerAfter == circuitBreakers'[call.name][1].b

\* C26: a withErrorHandling call with retry and circuitBreaker is one outcome
\* for the breaker: attempts that fail and are retried leave the breaker
\* alone, the failure that ends the call adds exactly one to its failure
\* counter, and an attempt that succeeds is recorded as one success.
C26_RetryInsideBreaker ==
    /\ [][(call.kind = "weh" /\ call.retry # 0 /\ call.cb # 0 /\ IsFStep("rejected"))
            => IF call'.pc = "sleeping"
               THEN circuitBreakers' = circuitBreakers
               ELSE /\ Settled'
                    /\ CallBreakerAfter.failures = CallBreaker.failures + 1
                    /\ CallBreakerAfter =
                         onFailure(CallBreaker, circuitBreakers[call.name][1].o, now).b]_vars
    /\ [][(call.kind = "weh" /\ call.retry # 0 /\ call.cb # 0 /\ IsFStep("timer"))
            => circuitBreakers' = circuitBreakers /\ call'.pc = "running"]_vars
    /\ [][(call.kind = "weh" /\ call.retry # 0 /\ call.cb # 0 /\ IsFStep("resolved"))
            => /\ CallBreakerAfter =
                    onSuccess(CallBreaker, circuitBreakers[call.name][1].o, now).b
               /\ CallBreakerAfter.failures <= CallBreaker.failures
               /\ call'.out = FReturned(OpValue)]_vars

C26_Witness ==
    /\ call.kind = "weh" /\ call.retry = 2 /\ call.cb = 2
    /\ call.pc \in {"returned", "thrown"}
    /\ call.invoked = 2
    /\ ftrace[1].name = "rejected"
    /\ CallBreaker.state = CLOSED
    /\ CallBreaker.failures = 1

\* C30: a withCircuitBreaker call returns a fallback's value only when the
\* breaker rejected it without invoking the operation; when the operation was
\* invoked and raised, the call raises that error, whatever it is.
C30_FallbackOnlyOnRejection ==
    (FailedCall /\ call.kind = "wcb" /\ call.invoked > 0)
        => /\ ftrace[1].name = "rejected"
           /\ call.out = FThrown(ftrace[1].arg)

\* ------------------------------------------------------------------------
\* Properties of ErrorHandler with its ErrorLogger (checked under SpecNotify)
\* ------------------------------------------------------------------------
ListenerCalls(tr) == SelectSeq(tr, LAMBDA e : e.name = "listener")
Last(tr) == tr[Len(tr)]

====
